---- MODULE Spec2Model ----
(***************************************************************************)
(* lazyrg (src/main.go): the bubbletea model of an interactive ripgrep     *)
(* front-end.  model.Update is the event dispatcher; executeRipgrep and    *)
(* loadFile are the two asynchronous commands, whose completions come back *)
(* to Update as searchFinishedMsg and fileLoadedMsg.                       *)
(*                                                                         *)
(* Strings are sequences of characters.  A character is a one-letter TLA+  *)
(* string; ENOENT stands for the phrase "No such file or directory", which *)
(* holds no colon and no line break and neither starts nor ends with white *)
(* space, so that Split, SplitN and TrimSpace never cut it.                *)
(***************************************************************************)
EXTENDS Integers, Sequences, FiniteSets, TLC

\* ------------------------------------------------------------------ bounds
\* longest tool output the runner specification enumerates
MaxLen == 5
\* longest text typed into an input field
MaxInput == 1
\* most commands in flight at once
MaxInFlight == 2
\* most events of one session
MaxEvents == 8
\* largest scroll offset the viewer is moved to
MaxYOffset == 1
\* longest line-number text the runner specification enumerates
MaxLineLen == 2

\* ----------------------------------------------------------------- strings
NL == "\n"
SP == " "
COLON == ":"
ENOENT == "No such file or directory"
WhiteSpace == {SP, NL}

Max(a, b) == IF a >= b THEN a ELSE b

\* Seq(S) restricted to the lengths 0..n
SeqsUpTo(S, n) == UNION {[1..k -> S] : k \in 0..n}

\* index of the first sep in s, 0 when there is none
RECURSIVE IndexFrom(_, _, _)
IndexFrom(s, sep, i) ==
    IF i > Len(s) THEN 0
    ELSE IF s[i] = sep THEN i
    ELSE IndexFrom(s, sep, i + 1)

Index(s, sep) == IndexFrom(s, sep, 1)

\* strings.SplitN(s, sep, n) for n >= 1: at most n fields, the last one the
\* unsplit remainder
RECURSIVE SplitN(_, _, _)
SplitN(s, sep, n) ==
    LET i == Index(s, sep) IN
    IF n <= 1 \/ i = 0 THEN <<s>>
    ELSE <<SubSeq(s, 1, i - 1)>> \o SplitN(SubSeq(s, i + 1, Len(s)), sep, n - 1)

\* strings.Split(s, sep): every field
Split(s, sep) == SplitN(s, sep, Len(s) + 1)

RECURSIVE TrimLeft(_)
TrimLeft(s) ==
    IF s # <<>> /\ Head(s) \in WhiteSpace THEN TrimLeft(Tail(s)) ELSE s

RECURSIVE TrimRight(_)
TrimRight(s) ==
    IF s # <<>> /\ s[Len(s)] \in WhiteSpace
    THEN TrimRight(SubSeq(s, 1, Len(s) - 1)) ELSE s

\* strings.TrimSpace
TrimSpace(s) == TrimRight(TrimLeft(s))

\* strings.Contains(s, sub)
Contains(s, sub) ==
    \E i \in 1..(Len(s) - Len(sub) + 1) : SubSeq(s, i, i + Len(sub) - 1) = sub

\* ------------------------------------------------------------------ errors
\* a Go error value: nil, or a kind with the text it carries
NoErr == [kind |-> "nil", detail |-> <<>>]
Err(kind, detail) == [kind |-> kind, detail |-> detail]

\* ---------------------------------------------------- the search command
\* type Item
Item(fileName, lineNum, content) ==
    [fileName |-> fileName, lineNum |-> lineNum, content |-> content,
     fullPath |-> fileName]

\* what exec.Cmd.CombinedOutput gives for rg: a zero exit, a nonzero exit,
\* or no rg on the executable search path (the process never starts, so
\* there is no output)
ExitKinds == {"zero", "nonzero", "notfound"}
ProcResult(exit, output) == [exit |-> exit, output |-> output]
ProcOK(p) == p.exit = "notfound" => p.output = <<>>

\* mutant: the line is split at every colon
ParseLine_SplitAll(line) ==
    LET parts == Split(line, COLON) IN
    IF TrimSpace(line) = <<>> THEN <<>>
    ELSE IF Len(parts) < 3 THEN <<>>
    ELSE <<Item(TrimSpace(parts[1]), TrimSpace(parts[2]), TrimSpace(parts[3]))>>

\* the loop body of executeRipgrep over one output line
ParseLine(line) ==
    LET parts == SplitN(line, COLON, 3) IN
    IF TrimSpace(line) = <<>> THEN <<>>
    ELSE IF Len(parts) < 3 THEN <<>>
    ELSE <<Item(TrimSpace(parts[1]), TrimSpace(parts[2]), TrimSpace(parts[3]))>>

RECURSIVE ParseLines(_)
ParseLines(lines) ==
    IF lines = <<>> THEN <<>>
    ELSE ParseLine(Head(lines)) \o ParseLines(Tail(lines))

\* mutant: the empty pattern is handed to rg like any other
executeRipgrep_NoEmptyCheck(pattern, path, p) ==
    IF p.exit # "zero" /\ Contains(p.output, <<ENOENT>>)
    THEN [results |-> <<>>, err |-> Err("directory not found", path),
          spawned |-> TRUE]
    ELSE IF p.exit # "zero" /\ TrimSpace(p.output) = <<>>
    THEN [results |-> <<>>, err |-> NoErr, spawned |-> TRUE]
    ELSE [results |-> ParseLines(Split(p.output, NL)), err |-> NoErr,
          spawned |-> TRUE]

\* the closure executeRipgrep(pattern, path) returns, run against the
\* outcome p of the rg process: the searchFinishedMsg, and whether rg was
\* invoked at all
executeRipgrep(pattern, path, p) ==
    IF pattern = <<>>
    THEN [results |-> <<>>, err |-> Err("empty search pattern", <<>>),
          spawned |-> FALSE]
    ELSE IF p.exit # "zero" /\ Contains(p.output, <<ENOENT>>)
    THEN [results |-> <<>>, err |-> Err("directory not found", path),
          spawned |-> TRUE]
    ELSE IF p.exit # "zero" /\ TrimSpace(p.output) = <<>>
    THEN [results |-> <<>>, err |-> NoErr, spawned |-> TRUE]
    ELSE [results |-> ParseLines(Split(p.output, NL)), err |-> NoErr,
          spawned |-> TRUE]

\* ------------------------------------------------- the file-load command
Digits == <<"0", "1", "2", "3", "4", "5", "6", "7", "8", "9">>
IsDigit(c) == \E d \in 1..Len(Digits) : Digits[d] = c
DigitVal(c) == (CHOOSE d \in 1..Len(Digits) : Digits[d] = c) - 1

\* the value of the leading run of digits of s, continuing from acc
RECURSIVE ScanNumber(_, _)
ScanNumber(s, acc) ==
    IF s # <<>> /\ IsDigit(Head(s))
    THEN ScanNumber(Tail(s), acc * 10 + DigitVal(Head(s)))
    ELSE acc

RECURSIVE SkipBlanks(_)
SkipBlanks(s) == IF s # <<>> /\ Head(s) = SP THEN SkipBlanks(Tail(s)) ELSE s

\* fmt.Sscanf(s, "%d", &n): leading blanks are skipped, a sign is accepted,
\* then at least one digit is needed; what follows the digits is not read.
\* ok is err == nil, val the number stored.
Sscanf(s) ==
    LET t == SkipBlanks(s)
        neg == t # <<>> /\ Head(t) = "-"
        u == IF t # <<>> /\ Head(t) \in {"-", "+"} THEN Tail(t) ELSE t
    IN  IF u # <<>> /\ IsDigit(Head(u))
        THEN [ok |-> TRUE,
              val |-> IF neg THEN 0 - ScanNumber(u, 0) ELSE ScanNumber(u, 0)]
        ELSE [ok |-> FALSE, val |-> 0]

\* what the environment answers to one loadFile: the first bat run (with
\* --highlight-line), os.Open and io.ReadAll of the file, its bytes, and
\* the second bat run (without --highlight-line)
FileBytes == {<<"a", NL, "b">>}
AnyBytes == CHOOSE b \in FileBytes : TRUE
LoadEnv(bat1, file, bytes, bat2) ==
    [bat1 |-> bat1, file |-> file, bytes |-> bytes, bat2 |-> bat2]
\* an answer that a run never asks for is left at a fixed value
LoadEnvs ==
    {LoadEnv("ok", "ok", AnyBytes, "ok")}
    \cup {LoadEnv("notfound", f, AnyBytes, "ok") : f \in {"openfail", "readfail"}}
    \cup {LoadEnv("notfound", "ok", b, "ok") : b \in FileBytes}
    \cup {LoadEnv("fail", "ok", AnyBytes, b2) : b2 \in {"ok", "fail"}}

\* the raw fallback's rendering: one numbered row per physical line, the
\* target line marked
RawRender(lines, lineNumInt) ==
    [i \in 1..Len(lines) |->
        [mark |-> (i = lineNumInt), num |-> i, text |-> lines[i]]]

Content(via, path, rows) == [via |-> via, path |-> path, rows |-> rows]
NoContent == Content("none", <<>>, <<>>)

\* mutant: no failure of bat is taken for a missing binary
BatMissing_Never(bat1) == FALSE

\* err != nil && strings.Contains(err.Error(), "executable file not found")
BatMissing(bat1) == bat1 = "notfound"

\* the closure loadFile(filepath, lineNum) returns, run against e: the
\* fileLoadedMsg, and the external calls made, in order
loadFile(filepath, lineNum, e) ==
    LET n == Sscanf(lineNum) IN
    IF ~n.ok
    THEN [content |-> NoContent, err |-> Err("invalid line number", lineNum),
          calls |-> <<>>]
    ELSE IF BatMissing(e.bat1)
    THEN IF e.file = "openfail"
         THEN [content |-> NoContent, err |-> Err("open", filepath),
               calls |-> <<"bat --highlight-line", "os.Open">>]
         ELSE IF e.file = "readfail"
         THEN [content |-> NoContent, err |-> Err("read", filepath),
               calls |-> <<"bat --highlight-line", "os.Open", "io.ReadAll">>]
         ELSE [content |-> Content("raw", filepath,
                                   RawRender(Split(e.bytes, NL), n.val)),
               err |-> NoErr,
               calls |-> <<"bat --highlight-line", "os.Open", "io.ReadAll">>]
    ELSE IF e.bat1 = "ok"
    THEN [content |-> Content("bat --highlight-line", filepath, <<>>),
          err |-> NoErr, calls |-> <<"bat --highlight-line">>]
    ELSE IF e.bat2 = "fail"
    THEN [content |-> NoContent, err |-> Err("exit status", <<>>),
          calls |-> <<"bat --highlight-line", "bat">>]
    ELSE [content |-> Content("bat", filepath, <<>>), err |-> NoErr,
          calls |-> <<"bat --highlight-line", "bat">>]

\* --------------------------------------------------------- the program
\* const searchTab, resultsTab, fileTab
searchTab == 0
resultsTab == 1
fileTab == 2

VARIABLES
    activeTab,            \* m.activeTab
    searchInput,          \* m.searchInput: [value, focus]
    directoryInput,       \* m.directoryInput: [value, focus]
    searchResults,        \* m.searchResults: [items, filterState, filteredItems, index, height]
    fileViewer,           \* m.fileViewer: [content, YOffset, Height]
    statusMessage,        \* m.statusMessage: [fmt, args]
    statusMessageType,    \* m.statusMessageType
    window,               \* m.width, m.height, m.ready
    helpShowAll,          \* m.help.ShowAll
    currentPath,          \* m.currentPath
    currentSearchPattern, \* m.currentSearchPattern
    inFlight,             \* the commands handed to the runtime and not yet completed, in the order Update returned them
    quit,                 \* tea.Quit was returned
    steps,                \* history: the number of events Update has processed
    last,                 \* history: the event Update processed last, the commands it returned, the runner's execution behind a completion
    tabRun                \* history: the tab at the start of the current run of consecutive ctrl+t keys, and the run's length

vars == <<activeTab, searchInput, directoryInput, searchResults, fileViewer,
          statusMessage, statusMessageType, window, helpShowAll, currentPath,
          currentSearchPattern, inFlight, quit, steps, last, tabRun>>

modelVars == <<activeTab, searchInput, directoryInput, searchResults, fileViewer,
               statusMessage, statusMessageType, window, helpShowAll, currentPath,
               currentSearchPattern>>

\* the characters a key press types into an input field
TypeChars == {"a"}
\* os.Getwd() succeeded, or failed and "." stands in
WorkDirs == {<<"w">>}

\* strconv of a small count, as fmt.Sprintf("%d", n) writes it
RECURSIVE Itoa(_)
Itoa(n) == IF n < 10 THEN <<Digits[n + 1]>> ELSE Itoa(n \div 10) \o <<Digits[(n % 10) + 1]>>

\* fmt.Sprintf(fmt, args...)
Sprintf(fmt, args) == [fmt |-> fmt, args |-> args]
\* err.Error()
ErrorText(err) == <<err.kind>> \o err.detail

\* a tea.Cmd running an external tool
SearchCmd(pattern, path) ==
    [kind |-> "search", pattern |-> pattern, path |-> path, lineNum |-> <<>>]
LoadCmd(path, lineNum) ==
    [kind |-> "load", pattern |-> <<>>, path |-> path, lineNum |-> lineNum]

NoRun == [kind |-> "none"]
NoPrev == [run |-> NoRun, inFlight |-> <<>>]
\* the event processed, the commands Update returned for it, the runner's
\* execution behind a completion, and what the event found; for a
\* completion that follows a completion, the earlier one's execution and
\* the commands that were in flight when it was delivered
Event(name, cmds, run) ==
    [event |-> name, cmds |-> cmds, run |-> run,
     before |-> [activeTab |-> activeTab, YOffset |-> fileViewer.YOffset,
                 searchResults |-> searchResults, inFlight |-> inFlight,
                 prev |-> IF run # NoRun /\ last.run # NoRun
                          THEN [run |-> last.run, inFlight |-> last.before.inFlight]
                          ELSE NoPrev]]

\* Update has processed one more event of the session
Processed(name, cmds, run) ==
    /\ steps < MaxEvents
    /\ steps' = steps + 1
    /\ last' = Event(name, cmds, run)

\* textinput.Model.Focus / Blur
Focus(in) == [in EXCEPT !.focus = TRUE]
Blur(in) == [in EXCEPT !.focus = FALSE]

\* list.Model.VisibleItems
VisibleItems(l) == IF l.filterState # "unfiltered" THEN l.filteredItems ELSE l.items
\* mutant: the first visible item whatever the cursor
SelectedItem_First(l) ==
    LET v == VisibleItems(l) IN IF Len(v) = 0 THEN <<>> ELSE <<v[1]>>

\* list.Model.SelectedItem: <<the item>>, or <<>> for nil
SelectedItem(l) ==
    LET v == VisibleItems(l) IN
    IF l.index < 0 \/ Len(v) = 0 \/ Len(v) <= l.index THEN <<>> ELSE <<v[l.index + 1]>>
\* mutant: the new items are added after the old ones
SetItems_Append(l, items) ==
    [l EXCEPT !.items = @ \o items,
              !.filteredItems = IF l.filterState # "unfiltered" THEN <<>> ELSE @]

\* list.Model.SetItems: a filter in force is left with no matches until it
\* is computed again (Update drops the command that recomputes it)
SetItems(l, items) ==
    [l EXCEPT !.items = items,
              !.filteredItems = IF l.filterState # "unfiltered" THEN <<>> ELSE @]

NoTabRun == [start |-> searchTab, count |-> 0]

\* mutant: the scroll offset is kept
GotoTop_Keep(v) == v

\* viewport.Model.GotoTop
GotoTop(v) == [v EXCEPT !.YOffset = 0]
\* viewport.Model.SetContent
SetContent(v, content) == [v EXCEPT !.content = content]

\* initialModel
InitModel ==
    /\ activeTab = searchTab
    /\ searchInput = [value |-> <<>>, focus |-> TRUE]
    /\ directoryInput = [value |-> <<>>, focus |-> FALSE]
    /\ searchResults = [items |-> <<>>, filterState |-> "unfiltered",
                        filteredItems |-> <<>>, index |-> 0, height |-> 0]
    /\ fileViewer = [content |-> NoContent, YOffset |-> 0, Height |-> 0]
    /\ statusMessage = Sprintf("Welcome to LazyRG! Press Ctrl+F to search", <<>>)
    /\ statusMessageType = "info"
    /\ window = [width |-> 0, height |-> 0, ready |-> FALSE]
    /\ helpShowAll = FALSE
    /\ currentPath \in WorkDirs
    /\ currentSearchPattern = <<>>
    /\ quit = FALSE
    /\ steps = 0
    /\ last = [event |-> "init", cmds |-> <<>>, run |-> NoRun,
               before |-> [activeTab |-> searchTab, YOffset |-> 0,
                           searchResults |-> searchResults,
                           inFlight |-> <<>>, prev |-> NoPrev]]
    /\ tabRun = NoTabRun

Init ==
    /\ InitModel
    /\ inFlight = <<>>

\* every event but ctrl+t ends a run of ctrl+t keys
EndTabRun == tabRun' = NoTabRun

\* ------------------------------------------------- Update: key messages
\* mutant: the quit key is ignored while a command is in flight
Quit_WhenIdle ==
    /\ ~quit
    /\ inFlight = <<>>
    /\ quit' = TRUE
    /\ Processed("Quit", <<>>, NoRun)
    /\ EndTabRun
    /\ UNCHANGED <<modelVars, inFlight>>

\* case key.Matches(msg, m.keymap.Quit)
Quit ==
    /\ ~quit
    /\ quit' = TRUE
    /\ Processed("Quit", <<>>, NoRun)
    /\ EndTabRun
    /\ UNCHANGED <<modelVars, inFlight>>

\* case key.Matches(msg, m.keymap.Help)
Help ==
    /\ ~quit
    /\ helpShowAll' = ~helpShowAll
    /\ Processed("Help", <<>>, NoRun)
    /\ EndTabRun
    /\ UNCHANGED <<activeTab, searchInput, directoryInput, searchResults,
                   fileViewer, statusMessage, statusMessageType, window,
                   currentPath, currentSearchPattern, inFlight, quit>>

\* mutant: the last tab does not wrap to the first
NextTabOf_NoWrap(t) == IF t < fileTab THEN t + 1 ELSE t

\* m.activeTab = (m.activeTab + 1) % 3
NextTabOf(t) == (t + 1) % 3

\* case key.Matches(msg, m.keymap.Tab); the spinner it may start is no
\* external command
Tab ==
    /\ ~quit
    /\ activeTab' = NextTabOf(activeTab)
    /\ searchInput' = IF activeTab' = searchTab THEN Focus(searchInput)
                      ELSE searchInput
    /\ Processed("Tab", <<>>, NoRun)
    /\ tabRun' = IF tabRun.count \in {1, 2}
                 THEN [tabRun EXCEPT !.count = @ + 1]
                 ELSE [start |-> activeTab, count |-> 1]
    /\ UNCHANGED <<directoryInput, searchResults, fileViewer, statusMessage,
                   statusMessageType, window, helpShowAll, currentPath,
                   currentSearchPattern, inFlight, quit>>

\* case key.Matches(msg, m.keymap.Search) || key.Matches(msg, m.keymap.Search2)
Search ==
    /\ ~quit
    /\ IF activeTab # searchTab
       THEN /\ activeTab' = searchTab
            /\ searchInput' = Focus(searchInput)
       ELSE UNCHANGED <<activeTab, searchInput>>
    /\ Processed("Search", <<>>, NoRun)
    /\ EndTabRun
    /\ UNCHANGED <<directoryInput, searchResults, fileViewer, statusMessage,
                   statusMessageType, window, helpShowAll, currentPath,
                   currentSearchPattern, inFlight, quit>>

\* case key.Matches(msg, m.keymap.Back)
Back ==
    /\ ~quit
    /\ IF activeTab = fileTab
       THEN /\ activeTab' = resultsTab
            /\ UNCHANGED searchInput
       ELSE IF activeTab = resultsTab
       THEN /\ activeTab' = searchTab
            /\ searchInput' = Focus(searchInput)
       ELSE UNCHANGED <<activeTab, searchInput>>
    /\ Processed("Back", <<>>, NoRun)
    /\ EndTabRun
    /\ UNCHANGED <<directoryInput, searchResults, fileViewer, statusMessage,
                   statusMessageType, window, helpShowAll, currentPath,
                   currentSearchPattern, inFlight, quit>>

\* whether Enter in the results tab finds an item to open
HasSelection(l) == Len(l.items) > 0 /\ SelectedItem(l) # <<>>

\* mutant: Enter searches whatever the pattern field holds
HasPattern_Always(in) == TRUE

\* if m.searchInput.Value() != ""
HasPattern(in) == in.value # <<>>

\* mutant: the directory field alone gives the root path
SearchPath_DirOnly(dir, cwd) == dir

\* the root path of a search: the directory field, else the working directory
SearchPath(dir, cwd) == IF dir # <<>> THEN dir ELSE cwd

\* Enter in the search tab with a pattern typed
EnterSearch ==
    /\ ~quit
    /\ activeTab = searchTab
    /\ HasPattern(searchInput)
    /\ Len(inFlight) < MaxInFlight
    /\ LET searchPath == SearchPath(directoryInput.value, currentPath)
           cmd == SearchCmd(searchInput.value, searchPath)
       IN  /\ currentSearchPattern' = searchInput.value
           /\ activeTab' = resultsTab
           /\ statusMessage' = Sprintf("Searching for: %s in %s",
                                       <<searchInput.value, searchPath>>)
           /\ statusMessageType' = "info"
           /\ inFlight' = Append(inFlight, cmd)
           /\ Processed("Enter", <<cmd>>, NoRun)
    /\ EndTabRun
    /\ UNCHANGED <<searchInput, directoryInput, searchResults, fileViewer,
                   window, helpShowAll, currentPath, quit>>

\* Enter in the results tab with an item selected
EnterResult ==
    /\ ~quit
    /\ activeTab = resultsTab
    /\ HasSelection(searchResults)
    /\ Len(inFlight) < MaxInFlight
    /\ LET item == SelectedItem(searchResults)[1]
           cmd == LoadCmd(item.fullPath, item.lineNum)
       IN  /\ activeTab' = fileTab
           /\ statusMessage' = Sprintf("Viewing file: %s", <<item.fullPath>>)
           /\ statusMessageType' = "info"
           /\ inFlight' = Append(inFlight, cmd)
           /\ Processed("Enter", <<cmd>>, NoRun)
    /\ EndTabRun
    /\ UNCHANGED <<searchInput, directoryInput, searchResults, fileViewer,
                   window, helpShowAll, currentPath, currentSearchPattern, quit>>

\* list.Model.Update(enter) while the filter is being typed: with no match
\* left the filter is cleared
ListEnter(l) ==
    IF l.filterState = "filtering" /\ Len(l.items) > 0 /\ Len(VisibleItems(l)) = 0
    THEN [l EXCEPT !.filterState = "unfiltered", !.filteredItems = <<>>]
    ELSE l

\* Enter that starts nothing falls through to the active tab's component:
\* the text input and the viewport ignore it, the list takes it
EnterOther ==
    /\ ~quit
    /\ \/ activeTab = searchTab /\ ~HasPattern(searchInput)
       \/ activeTab = resultsTab /\ ~HasSelection(searchResults)
       \/ activeTab = fileTab
    /\ searchResults' = IF activeTab = resultsTab THEN ListEnter(searchResults)
                        ELSE searchResults
    /\ Processed("Enter", <<>>, NoRun)
    /\ EndTabRun
    /\ UNCHANGED <<activeTab, searchInput, directoryInput, fileViewer,
                   statusMessage, statusMessageType, window, helpShowAll,
                   currentPath, currentSearchPattern, inFlight, quit>>

\* case key.Matches(msg, m.keymap.Enter)
Enter == EnterSearch \/ EnterResult \/ EnterOther

\* if m.searchInput.Focused() {...} else {...} of InputNext and InputPrev
ToggleFocus(s, d) ==
    IF s.focus THEN <<Blur(s), Focus(d)>> ELSE <<Focus(s), Blur(d)>>

\* key tab or shift+tab: the two branches run the same code; outside the
\* search tab the key goes to the list or the viewport, which ignore it
InputNextPrev(name) ==
    /\ ~quit
    /\ IF activeTab = searchTab
       THEN /\ searchInput' = ToggleFocus(searchInput, directoryInput)[1]
            /\ directoryInput' = ToggleFocus(searchInput, directoryInput)[2]
       ELSE UNCHANGED <<searchInput, directoryInput>>
    /\ Processed(name, <<>>, NoRun)
    /\ EndTabRun
    /\ UNCHANGED <<activeTab, searchResults, fileViewer, statusMessage,
                   statusMessageType, window, helpShowAll, currentPath,
                   currentSearchPattern, inFlight, quit>>

InputNext == InputNextPrev("InputNext")
InputPrev == InputNextPrev("InputPrev")

\* ------------------------------- Update: keys routed to the components
\* textinput.Model.Update of a typed character or of backspace; an input
\* that is not focused ignores the key
TypeInto(in, c) == IF in.focus THEN [in EXCEPT !.value = Append(@, c)] ELSE in
EraseIn(in) ==
    IF in.focus /\ in.value # <<>>
    THEN [in EXCEPT !.value = SubSeq(@, 1, Len(@) - 1)] ELSE in

\* case searchTab of the component switch, for a key that edits the text
\* (s2 and d2 are the two inputs after their Update)
EditInput(s2, d2) ==
    /\ ~quit
    /\ activeTab = searchTab
    /\ IF searchInput.focus
       THEN /\ searchInput' = s2
            /\ UNCHANGED directoryInput
       ELSE /\ directoryInput' = d2
            /\ UNCHANGED searchInput
    /\ Processed("Key", <<>>, NoRun)
    /\ EndTabRun
    /\ UNCHANGED <<activeTab, searchResults, fileViewer, statusMessage,
                   statusMessageType, window, helpShowAll, currentPath,
                   currentSearchPattern, inFlight, quit>>

TypeChar ==
    \E c \in TypeChars :
        /\ Len(IF searchInput.focus THEN searchInput.value
               ELSE directoryInput.value) < MaxInput
        /\ EditInput(TypeInto(searchInput, c), TypeInto(directoryInput, c))

Backspace == EditInput(EraseIn(searchInput), EraseIn(directoryInput))

\* the subsequences of s, in s's order
RECURSIVE SubSeqs(_)
SubSeqs(s) ==
    IF s = <<>> THEN {<<>>}
    ELSE LET rest == SubSeqs(Tail(s)) IN
         rest \cup {<<Head(s)>> \o r : r \in rest}

\* case resultsTab of the component switch: m.searchResults.Update(msg)
ListUpdate(l2) ==
    /\ ~quit
    /\ activeTab = resultsTab
    /\ searchResults' = l2
    /\ Processed("Key", <<>>, NoRun)
    /\ EndTabRun
    /\ UNCHANGED <<activeTab, searchInput, directoryInput, fileViewer,
                   statusMessage, statusMessageType, window, helpShowAll,
                   currentPath, currentSearchPattern, inFlight, quit>>

\* a cursor key while browsing: the cursor moves within the list
ListCursor ==
    /\ searchResults.filterState = "unfiltered"
    /\ \E i \in 0..Max(0, Len(searchResults.items) - 1) :
          /\ i # searchResults.index
          /\ ListUpdate([searchResults EXCEPT !.index = i])

\* the filter key while browsing a list that has items
ListStartFilter ==
    /\ searchResults.filterState = "unfiltered"
    /\ searchResults.items # <<>>
    /\ ListUpdate([searchResults EXCEPT !.filterState = "filtering",
                                        !.filteredItems = searchResults.items,
                                        !.index = 0])

\* text typed into the filter and the matches it leaves: some of the items
ListFilterMatches ==
    /\ searchResults.filterState = "filtering"
    /\ \E f \in SubSeqs(searchResults.items) :
          /\ f # searchResults.filteredItems
          /\ ListUpdate([searchResults EXCEPT !.filteredItems = f])

\* case fileTab of the component switch: m.fileViewer.Update(msg) scrolls
ViewerScroll ==
    /\ ~quit
    /\ activeTab = fileTab
    /\ \E y \in 0..MaxYOffset :
          /\ y # fileViewer.YOffset
          /\ fileViewer' = [fileViewer EXCEPT !.YOffset = y]
    /\ Processed("Key", <<>>, NoRun)
    /\ EndTabRun
    /\ UNCHANGED <<activeTab, searchInput, directoryInput, searchResults,
                   statusMessage, statusMessageType, window, helpShowAll,
                   currentPath, currentSearchPattern, inFlight, quit>>

\* ------------------------------------------------- Update: other messages
\* the rows WindowSizeMsg reserves
topHeight == 6
helpHeight == 2
statusHeight == 1
borderHeight == 2
\* h -= 4 // Make room for help
helpRoom == 4

\* availableHeight, less the room for the expanded help
ViewHeight(height, showAll) ==
    LET availableHeight == height - topHeight - helpHeight - statusHeight - borderHeight
    IN  IF showAll THEN availableHeight - helpRoom ELSE availableHeight

\* the sizes a terminal reports
WindowSizes == {<<80, 24>>}

\* case tea.WindowSizeMsg
WindowSize ==
    /\ ~quit
    /\ \E sz \in WindowSizes :
          LET h == ViewHeight(sz[2], helpShowAll) IN
          /\ window' = [width |-> sz[1], height |-> sz[2], ready |-> TRUE]
          /\ searchResults' = [searchResults EXCEPT !.height = h]
          /\ fileViewer' = GotoTop([fileViewer EXCEPT !.Height = h])
    /\ Processed("WindowSize", <<>>, NoRun)
    /\ EndTabRun
    /\ UNCHANGED <<activeTab, searchInput, directoryInput, statusMessage,
                   statusMessageType, helpShowAll, currentPath,
                   currentSearchPattern, inFlight, quit>>

\* mutant: a completed command stays in flight
Completed_Keep(i) == inFlight

\* the commands in flight once the i-th has completed
Completed(i) == SubSeq(inFlight, 1, i - 1) \o SubSeq(inFlight, i + 1, Len(inFlight))

\* case searchFinishedMsg, for the message msg of the i-th command in flight
SearchFinished(i, msg, run) ==
    /\ ~quit
    /\ i \in DOMAIN inFlight
    /\ inFlight' = Completed(i)
    /\ IF msg.err # NoErr
       THEN /\ statusMessage' = Sprintf("Error: %s", <<ErrorText(msg.err)>>)
            /\ statusMessageType' = "error"
            /\ UNCHANGED searchResults
       ELSE /\ statusMessage' =
                  IF Len(msg.results) = 0 THEN Sprintf("No results found", <<>>)
                  ELSE Sprintf("Found %d results", <<Itoa(Len(msg.results))>>)
            /\ statusMessageType' = "info"
            /\ searchResults' = SetItems(searchResults, msg.results)
    /\ Processed("searchFinishedMsg", <<>>, run)
    /\ EndTabRun
    /\ UNCHANGED <<activeTab, searchInput, directoryInput, fileViewer, window,
                   helpShowAll, currentPath, currentSearchPattern, quit>>

\* mutant: a failed load leaves the tab as it is
TabAfterLoadError_Stay(t) == t

\* m.activeTab = resultsTab, from the tab t a failed load finds
TabAfterLoadError(t) == resultsTab

\* case fileLoadedMsg, for the message msg of the i-th command in flight
FileLoaded(i, msg, run) ==
    /\ ~quit
    /\ i \in DOMAIN inFlight
    /\ inFlight' = Completed(i)
    /\ IF msg.err # NoErr
       THEN /\ statusMessage' = Sprintf("Error loading file: %s", <<ErrorText(msg.err)>>)
            /\ statusMessageType' = "error"
            /\ activeTab' = TabAfterLoadError(activeTab)
            /\ UNCHANGED fileViewer
       ELSE /\ fileViewer' = GotoTop(SetContent(fileViewer, msg.content))
            /\ UNCHANGED <<statusMessage, statusMessageType, activeTab>>
    /\ Processed("fileLoadedMsg", <<>>, run)
    /\ EndTabRun
    /\ UNCHANGED <<searchInput, directoryInput, searchResults, window,
                   helpShowAll, currentPath, currentSearchPattern, quit>>

\* ------------------------------------------------------------- the runner
SearchRun(c, p) ==
    [kind |-> "search", cmd |-> c, proc |-> p,
     msg |-> executeRipgrep(c.pattern, c.path, p)]
LoadRun(c, e) ==
    [kind |-> "load", cmd |-> c, env |-> e,
     msg |-> loadFile(c.path, c.lineNum, e)]

\* what rg prints in the sessions explored: nothing, one match with an
\* indented line, two matches in two files, a diagnostic, a missing root
SearchOutputs ==
    { <<>>,
      <<"a", COLON, "1", COLON, SP, "b">>,
      <<"a", COLON, "1", COLON, "b", NL, "b", COLON, "2", COLON, "b", NL>>,
      <<"r", COLON, SP, "e", COLON>>,
      <<"r", COLON, SP, "w", COLON, SP, ENOENT>> }
SearchOutcomes ==
    {p \in {ProcResult(x, o) : x \in ExitKinds, o \in SearchOutputs} : ProcOK(p)}

\* the places in flight of the commands of a kind
InFlightOf(kind) == {i \in DOMAIN inFlight : inFlight[i].kind = kind}

\* a search in flight completes and its message is delivered
SearchCompleted ==
    \E i \in InFlightOf("search"), p \in SearchOutcomes :
        LET run == SearchRun(inFlight[i], p) IN SearchFinished(i, run.msg, run)

\* a file load in flight completes and its message is delivered
LoadCompleted ==
    \E i \in InFlightOf("load"), e \in LoadEnvs :
        LET run == LoadRun(inFlight[i], e) IN FileLoaded(i, run.msg, run)

Next ==
    \/ Quit
    \/ Help
    \/ Tab
    \/ Search
    \/ Back
    \/ Enter
    \/ InputNext
    \/ InputPrev
    \/ TypeChar
    \/ Backspace
    \/ ListCursor
    \/ ListStartFilter
    \/ ListFilterMatches
    \/ ViewerScroll
    \/ WindowSize
    \/ SearchCompleted
    \/ LoadCompleted

Spec == Init /\ [][Next]_vars

\* ------------------------------------------------- the runner on its own
\* One search command, whatever its pattern and root path, completing with
\* whatever rg can answer within MaxLen characters.
OutputChars == {"a", COLON, NL, SP, ENOENT}
AllSearchOutcomes ==
    {p \in {ProcResult(x, o) : x \in ExitKinds, o \in SeqsUpTo(OutputChars, MaxLen)} :
        ProcOK(p)}
RunnerCmds == {SearchCmd(pat, path) : pat \in {<<>>, <<"a">>}, path \in {<<"w">>, <<"a">>}}

\* One file-load command, whatever its line-number text within MaxLineLen
\* characters, completing with whatever bat and the file system can answer.
LineChars == {"0", "1", "-", "a"}
RunnerLoads == {LoadCmd(<<"a">>, n) : n \in SeqsUpTo(LineChars, MaxLineLen)}

InitRunner ==
    /\ InitModel
    /\ inFlight \in {<<c>> : c \in RunnerCmds \cup RunnerLoads}

RunSearch ==
    \E i \in InFlightOf("search"), p \in AllSearchOutcomes :
        LET run == SearchRun(inFlight[i], p) IN SearchFinished(i, run.msg, run)

RunLoad ==
    \E i \in InFlightOf("load"), e \in LoadEnvs :
        LET run == LoadRun(inFlight[i], e) IN FileLoaded(i, run.msg, run)

NextRunner == RunSearch \/ RunLoad

SpecRunner == InitRunner /\ [][NextRunner]_vars

\* ================================================================ claims
IsSearchDone == last.event = "searchFinishedMsg"
IsLoadDone == last.event = "fileLoadedMsg"

\* C1: whenever a fileLoadedMsg carrying an error has been processed,
\* whatever the tab was and whatever else is in flight, the active tab is
\* the results tab and the status is of error severity.
C1_FailedLoadReturnsToResults ==
    (IsLoadDone /\ last.run.msg.err # NoErr)
        => (activeTab = resultsTab /\ statusMessageType = "error")

\* a failed load arrives while the search tab is shown and another command
\* is still in flight
C1_Witness ==
    /\ IsLoadDone
    /\ last.run.msg.err # NoErr
    /\ last.before.activeTab = searchTab
    /\ inFlight # <<>>

\* the items the list shows, read off the list's fields
C2_Shown(l) == IF l.filterState = "unfiltered" THEN l.items ELSE l.filteredItems

\* C2 (as amended): Enter in the results tab with a non-empty result list
\* and a selected item (the cursor is on a shown item) moves to the file tab
\* and returns exactly one load command, for that item's path and line;
\* with no selected item it returns no command and stays in the results tab.
C2_ConfirmLoadsSelected ==
    (/\ last.event = "Enter"
     /\ last.before.activeTab = resultsTab
     /\ Len(last.before.searchResults.items) > 0)
        => LET l == last.before.searchResults
               v == C2_Shown(l)
           IN  IF l.index < Len(v)
               THEN /\ activeTab = fileTab
                    /\ last.cmds = <<LoadCmd(v[l.index + 1].fullPath,
                                             v[l.index + 1].lineNum)>>
               ELSE /\ activeTab = resultsTab
                    /\ last.cmds = <<>>

\* Enter opened the second of two results
C2_Witness ==
    /\ last.event = "Enter"
    /\ last.before.activeTab = resultsTab
    /\ Len(last.before.searchResults.items) = 2
    /\ last.before.searchResults.index = 1
    /\ activeTab = fileTab
    /\ Len(last.cmds) = 1

\* C2 (as stated): Enter in the results tab with a non-empty result list
\* always moves to the file tab and returns exactly one load command, for
\* an item of the list.  (Stated here for lists of genuine matches, whose
\* line numbers are numbers.)
C2_Original ==
    (/\ last.event = "Enter"
     /\ last.before.activeTab = resultsTab
     /\ Len(last.before.searchResults.items) > 0
     /\ \A k \in 1..Len(last.before.searchResults.items) :
           Sscanf(last.before.searchResults.items[k].lineNum).ok)
        => /\ activeTab = fileTab
           /\ Len(last.cmds) = 1
           /\ \E k \in 1..Len(last.before.searchResults.items) :
                 LET it == last.before.searchResults.items[k] IN
                 last.cmds[1] = LoadCmd(it.fullPath, it.lineNum)

\* the fixed order of the tabs
C3_Order == (searchTab :> resultsTab) @@ (resultsTab :> fileTab) @@ (fileTab :> searchTab)

\* C3: in a run of consecutive ctrl+t keys the tabs follow the fixed order
\* search, results, file, search: after three keys the tab is the one the
\* run started from, after one or two it is not.
C3_NextTabIsThreeCycle ==
    /\ tabRun.count = 1 => (activeTab = C3_Order[tabRun.start] /\ activeTab # tabRun.start)
    /\ tabRun.count = 2 => (activeTab = C3_Order[C3_Order[tabRun.start]] /\ activeTab # tabRun.start)
    /\ tabRun.count = 3 => activeTab = tabRun.start

\* three ctrl+t keys in a row, started in the results tab
C3_Witness == tabRun.count = 3 /\ tabRun.start = resultsTab /\ last.event = "Tab"

\* ---- the reference parse of C4, from the positions of the separators
C4_Least(S) == CHOOSE x \in S : \A y \in S : x <= y
C4_Most(S) == CHOOSE x \in S : \A y \in S : x >= y
C4_Nth(S, k) == CHOOSE b \in S : Cardinality({x \in S : x < b}) = k - 1
C4_Trim(t) ==
    LET keep == {i \in 1..Len(t) : t[i] \notin WhiteSpace} IN
    IF keep = {} THEN <<>> ELSE SubSeq(t, C4_Least(keep), C4_Most(keep))
C4_Field(t, trimmed) == IF trimmed THEN C4_Trim(t) ELSE t
C4_Lines(s) ==
    LET B == {0} \cup {i \in 1..Len(s) : s[i] = NL} \cup {Len(s) + 1} IN
    [k \in 1..(Cardinality(B) - 1) |->
        SubSeq(s, C4_Nth(B, k) + 1, C4_Nth(B, k + 1) - 1)]
C4_Colons(l) == {i \in 1..Len(l) : l[i] = COLON}
C4_WellFormed(l) == Cardinality(C4_Colons(l)) >= 2
C4_Record(l, trimmed) ==
    LET c1 == C4_Nth(C4_Colons(l), 1)
        c2 == C4_Nth(C4_Colons(l), 2)
    IN  [fileName |-> C4_Field(SubSeq(l, 1, c1 - 1), trimmed),
         lineNum |-> C4_Field(SubSeq(l, c1 + 1, c2 - 1), trimmed),
         content |-> C4_Field(SubSeq(l, c2 + 1, Len(l)), trimmed)]
C4_Reference(s, trimmed) ==
    LET good == SelectSeq(C4_Lines(s), C4_WellFormed) IN
    [k \in 1..Len(good) |-> C4_Record(good[k], trimmed)]
C4_Fields(results) ==
    [k \in 1..Len(results) |->
        [fileName |-> results[k].fileName, lineNum |-> results[k].lineNum,
         content |-> results[k].content]]

\* C4 (as amended): for a non-empty pattern and an rg output that is parsed
\* (rg exited zero, or its output does not hold "No such file or directory")
\* the records are the reference parse with each field trimmed of
\* surrounding white space: one record per line with at least two colons,
\* in output order, duplicates kept, split at the first two colons only;
\* the list receives exactly these records.
C4_ParseIsReferenceTrimmed ==
    (/\ IsSearchDone
     /\ last.run.cmd.pattern # <<>>
     /\ (last.run.proc.exit = "zero" \/ ~Contains(last.run.proc.output, <<ENOENT>>)))
        => /\ last.run.msg.err = NoErr
           /\ C4_Fields(last.run.msg.results) = C4_Reference(last.run.proc.output, TRUE)
           /\ searchResults.items = last.run.msg.results

\* a record whose content keeps a colon and one of whose fields was trimmed
C4_Witness ==
    /\ IsSearchDone
    /\ last.run.cmd.pattern # <<>>
    /\ last.run.msg.results # <<>>
    /\ Contains(last.run.msg.results[1].content, <<COLON>>)
    /\ C4_Reference(last.run.proc.output, TRUE) # C4_Reference(last.run.proc.output, FALSE)

\* C4 (as stated): for a non-empty pattern and any rg output the records
\* are the reference parse with the fields exactly the text between the
\* separators.
C4_Original ==
    (IsSearchDone /\ last.run.cmd.pattern # <<>>)
        => C4_Fields(last.run.msg.results) = C4_Reference(last.run.proc.output, FALSE)

\* C5: a search command with the empty pattern never starts rg and always
\* completes with the empty-pattern error, whatever the root path.
C5_EmptyPatternNeverSpawns ==
    (IsSearchDone /\ last.run.cmd.pattern = <<>>)
        => /\ ~last.run.msg.spawned
           /\ last.run.msg.err = Err("empty search pattern", <<>>)
           /\ last.run.msg.results = <<>>

\* an empty-pattern command completed although rg had matches to print
C5_Witness ==
    /\ IsSearchDone
    /\ last.run.cmd.pattern = <<>>
    /\ last.run.cmd.path = <<"a">>
    /\ last.run.proc.exit = "zero"
    /\ last.run.proc.output # <<>>

\* C6: when rg exits nonzero with non-empty output that does not name a
\* missing root, the search completes with an error, the status is of error
\* severity and the result list is untouched.
C6_NonzeroExitWithOutputIsError ==
    (/\ IsSearchDone
     /\ last.run.proc.exit = "nonzero"
     /\ last.run.proc.output # <<>>
     /\ ~Contains(last.run.proc.output, <<ENOENT>>))
        => /\ last.run.msg.err # NoErr
           /\ statusMessageType = "error"
           /\ searchResults = last.before.searchResults

\* C7: when rg is not on the executable search path, a search with a
\* non-empty pattern completes with an error, the status is of error
\* severity and the result list is untouched.
C7_MissingToolIsError ==
    (/\ IsSearchDone
     /\ last.run.proc.exit = "notfound"
     /\ last.run.cmd.pattern # <<>>)
        => /\ last.run.msg.err # NoErr
           /\ statusMessageType = "error"
           /\ searchResults = last.before.searchResults

\* the rows of fixed chrome: title and tabs, help, status, borders, and the
\* room of the expanded help
C8_Chrome ==
    topHeight + helpHeight + statusHeight + borderHeight
        + (IF helpShowAll THEN helpRoom ELSE 0)

\* C8: in every state after the first WindowSizeMsg the chrome rows plus the
\* height of the list and of the viewer do not exceed the window height.
C8_ChromeAndViewFitWindow ==
    window.ready
        => /\ C8_Chrome + fileViewer.Height <= window.height
           /\ C8_Chrome + searchResults.height <= window.height

\* C9: after every successful fileLoadedMsg and after every WindowSizeMsg
\* the viewer's scroll offset is 0.
C9_ScrollResetOnLoadAndResize ==
    (last.event = "WindowSize" \/ (IsLoadDone /\ last.run.msg.err = NoErr))
        => fileViewer.YOffset = 0

\* a load succeeded while the viewer was scrolled down
C9_Witness ==
    /\ IsLoadDone
    /\ last.run.msg.err = NoErr
    /\ last.before.YOffset > 0
    /\ fileViewer.content = last.run.msg.content

\* C10: in every state exactly one of the pattern field and the directory
\* field is focused.
C10_ExactlyOneFieldFocused == searchInput.focus # directoryInput.focus

\* C11: whenever the Search key (ctrl+f, ctrl+s) has been processed, from any
\* state, the search tab included with the directory field focused, the
\* active tab is the search tab and the pattern field is focused.
C11_SearchKeyFocusesPattern ==
    last.event = "Search" => (activeTab = searchTab /\ searchInput.focus)

\* C12: whenever a searchFinishedMsg has been processed, the active tab is
\* the one the message found; on success the list's items are exactly the
\* delivered matches and the status is "No results found" for none and
\* "Found N results" for N of them; on error the list's items are the ones
\* the message found.
C12_SearchFinishedSetsList ==
    IsSearchDone =>
        LET msg == last.run.msg
            n == Len(msg.results)
        IN  /\ activeTab = last.before.activeTab
            /\ IF msg.err = NoErr
               THEN /\ searchResults.items = msg.results
                    /\ n = 0 => statusMessage = Sprintf("No results found", <<>>)
                    /\ n > 0 => statusMessage = Sprintf("Found %d results", <<Itoa(n)>>)
               ELSE searchResults.items = last.before.searchResults.items

\* a success with matches is delivered in the search tab onto a list that
\* held other matches
C12_Witness ==
    /\ IsSearchDone
    /\ last.run.msg.err = NoErr
    /\ Len(last.run.msg.results) > 0
    /\ Len(last.before.searchResults.items) > 0
    /\ last.before.searchResults.items # last.run.msg.results
    /\ last.before.activeTab = searchTab

\* the text is a decimal numeral of a positive integer
C13_PositiveInteger(s) ==
    /\ s # <<>>
    /\ \A k \in 1..Len(s) : IsDigit(s[k])
    /\ \E k \in 1..Len(s) : s[k] # "0"

\* C13: whenever a load command whose line-number text is not a positive
\* integer has completed, its fileLoadedMsg carries the "invalid line
\* number" error and neither bat was run nor the file opened.
C13_BadLineNumberNeverSpawns ==
    (IsLoadDone /\ ~C13_PositiveInteger(last.run.cmd.lineNum))
        => (/\ last.run.msg.err = Err("invalid line number", last.run.cmd.lineNum)
            /\ last.run.msg.calls = <<>>)

C14_IsPager(call) == call \in {"bat --highlight-line", "bat"}

\* C14: whenever a load command has completed, bat was run at most twice,
\* first with --highlight-line. If that run succeeded its output is the
\* content and bat was not run again; if the bat binary was missing, bat
\* was not run again and the file was read instead, a failure to open or
\* read it giving an error and a success the raw rendering; if the run
\* failed otherwise, bat was run exactly once more without
\* --highlight-line, its success giving the content and its failure an
\* error. The command left the commands in flight and delivered one
\* message, which carries either content or an error.
C14_PagerAtMostTwiceInOrder ==
    IsLoadDone =>
        LET e == last.run.env
            msg == last.run.msg
            bats == SelectSeq(msg.calls, C14_IsPager)
        IN  /\ bats \in {<<>>, <<"bat --highlight-line">>,
                          <<"bat --highlight-line", "bat">>}
            /\ bats = <<>> => msg.err.kind = "invalid line number"
            /\ (bats # <<>> /\ e.bat1 = "ok") =>
                   /\ bats = <<"bat --highlight-line">>
                   /\ msg.err = NoErr
                   /\ msg.content.via = "bat --highlight-line"
            /\ (bats # <<>> /\ e.bat1 = "notfound") =>
                   /\ bats = <<"bat --highlight-line">>
                   /\ e.file # "ok" => msg.err # NoErr
                   /\ e.file = "ok" => (msg.err = NoErr /\ msg.content.via = "raw")
            /\ (bats # <<>> /\ e.bat1 = "fail") =>
                   /\ bats = <<"bat --highlight-line", "bat">>
                   /\ e.bat2 = "ok" => (msg.err = NoErr /\ msg.content.via = "bat")
                   /\ e.bat2 = "fail" => msg.err # NoErr
            /\ (msg.err = NoErr) # (msg.content = NoContent)
            /\ Len(inFlight) = Len(last.before.inFlight) - 1

\* the first run of bat failed with the binary present and the second run,
\* without --highlight-line, gave the content
C14_Witness ==
    /\ IsLoadDone
    /\ last.run.env.bat1 = "fail"
    /\ last.run.msg.calls = <<"bat --highlight-line", "bat">>
    /\ last.run.msg.err = NoErr

\* C15: whenever two successful search completions have been delivered one
\* after the other, for two commands that were in flight together, the
\* list's items are the matches of the second one delivered, whichever of
\* the two commands was returned first; both messages were processed, each
\* taking one command out of flight.
C15_LastDeliveredSearchWins ==
    LET prev == last.before.prev IN
    (/\ IsSearchDone
     /\ last.run.msg.err = NoErr
     /\ prev.run.kind = "search"
     /\ prev.run.msg.err = NoErr
     /\ \E i, j \in DOMAIN prev.inFlight :
           i # j /\ prev.inFlight[i].kind = "search" /\ prev.inFlight[j].kind = "search")
        => (/\ searchResults.items = last.run.msg.results
            /\ last.before.searchResults.items = prev.run.msg.results
            /\ Len(last.before.inFlight) = Len(prev.inFlight) - 1
            /\ Len(inFlight) = Len(prev.inFlight) - 2)

\* two searches of different roots were in flight; the one returned second
\* was delivered first and the one returned first was delivered second,
\* with other matches
C15_Witness ==
    LET prev == last.before.prev IN
    /\ IsSearchDone
    /\ last.run.msg.err = NoErr
    /\ prev.run.kind = "search"
    /\ prev.run.msg.err = NoErr
    /\ Len(prev.inFlight) = 2
    /\ prev.inFlight[1] # prev.inFlight[2]
    /\ prev.run.cmd = prev.inFlight[2]
    /\ last.run.cmd = prev.inFlight[1]
    /\ last.run.msg.results # prev.run.msg.results
    /\ Len(last.run.msg.results) > 0
    /\ Len(prev.run.msg.results) > 0

\* C16: in every state of a session that has not ended, commands in flight
\* or not, the quit key can be processed (within the MaxEvents events
\* explored), and processing it ends the session; a session that has ended
\* ended on the quit key, never on a searchFinishedMsg or a fileLoadedMsg.
C16_QuitAlwaysAndOnlyQuit ==
    /\ (~quit /\ steps < MaxEvents) => ENABLED Quit
    /\ last.event = "Quit" => quit
    /\ quit => last.event = "Quit"
    /\ (IsSearchDone \/ IsLoadDone) => ~quit

\* the session was ended by the quit key with a search and a file load
\* still in flight
C16_Witness ==
    /\ quit
    /\ last.event = "Quit"
    /\ InFlightOf("search") # {}
    /\ InFlightOf("load") # {}

\* C17: in every state every item of the result list has a line number
\* whose text is the numeral of a positive integer, whatever rg printed and
\* however it exited.
C17_ListLineNumbersArePositive ==
    \A k \in 1..Len(searchResults.items) :
        C13_PositiveInteger(searchResults.items[k].lineNum)

C19_Searches == {inFlight[i] : i \in InFlightOf("search")}

\* C19: every search command in flight, and so every one Update returned,
\* has a non-empty pattern and a non-empty root path; the one Enter has just
\* returned has the directory field's text for its root path if there is
\* any, else the working directory taken at startup; and no
\* searchFinishedMsg delivered carries the "empty search pattern" error.
C19_NoEmptyPatternOrPath ==
    /\ \A c \in C19_Searches : c.pattern # <<>> /\ c.path # <<>>
    /\ (last.event = "Enter" /\ last.cmds # <<>> /\ last.cmds[1].kind = "search") =>
          /\ last.cmds[1].pattern = searchInput.value
          /\ last.cmds[1].path =
                IF directoryInput.value = <<>> THEN currentPath
                ELSE directoryInput.value
    /\ IsSearchDone =>
          /\ last.run.cmd.pattern # <<>>
          /\ last.run.cmd.path # <<>>
          /\ last.run.msg.err.kind # "empty search pattern"

\* Enter returned a search command with the directory field empty, and the
\* command carries the working directory
C19_Witness ==
    /\ last.event = "Enter"
    /\ last.cmds # <<>>
    /\ last.cmds[1].kind = "search"
    /\ directoryInput.value = <<>>
    /\ last.cmds[1].path = currentPath

\* C20: whenever the file tab is shown under the status "Viewing file: p"
\* that Enter set, the viewer shows no content of a file other than p, be
\* the load of p still in flight or not; and once no load command is in
\* flight the viewer's content is the content loaded from p.
C20_ViewerShowsConfirmedFile ==
    (activeTab = fileTab /\ statusMessage.fmt = "Viewing file: %s")
        => /\ fileViewer.content # NoContent =>
                 fileViewer.content.path = statusMessage.args[1]
           /\ InFlightOf("load") = {} =>
                 fileViewer.content.path = statusMessage.args[1]

====
